---- MODULE Spec2Model ----
(* Model of file_method: check_path.rs (get_full_path, get_path_str,        *)
(* is_valid_directory, is_valid_file) and seek_file.rs                      *)
(* (seek_file_by_extension), run against a small mutable filesystem.        *)
EXTENDS FiniteSets, Integers, Sequences, TLC

VARIABLES fs, call, result, repeated

vars == <<fs, call, result, repeated>>

(***************************************************************************)
(* Bounds of the modelled environment.                                     *)
(***************************************************************************)
\* most nodes (besides the root) the filesystem holds at once
MaxNodes == 4
\* symbolic links followed in one resolution before it is reported as a loop
MaxSymlinks == 2

(***************************************************************************)
(* File names are sequences of characters; Invalid stands for a byte that  *)
(* is not valid UTF-8. A path is the sequence of its components, from the  *)
(* root.                                                                   *)
(***************************************************************************)
Invalid == "0xFF"
Dot == "."
DotDot == <<Dot, Dot>>
CurDir == <<Dot>>

nD    == <<"d">>
nBad  == <<Invalid>>
nAp   == <<"a", Dot, "p">>
nDotP == <<Dot, "p">>
nAtp  == <<"a", Dot, "t", Dot, "p">>
nACap == <<"a", Dot, "P">>
nX    == <<"x">>
nBadP == <<Invalid, Dot, "p">>
nLp   == <<"l", Dot, "p">>
nSp   == <<"s", Dot, "p">>

Root == <<>>

FileNames == {nAp, nDotP, nAtp, nACap, nX, nBadP}

\* every path at which the environment may create a node
Universe ==
    {<<nD>>, <<nBad>>, <<nD, nLp>>, <<nD, nSp>>, <<nD, nSp, nAp>>}
        \cup {<<nD, n>> : n \in FileNames}

LinkTargets == {<<nD, nAp>>, <<nD, nSp>>, <<nD, nLp>>}

\* kinds of node the environment creates at each path
NodeKinds(p) ==
    IF p = <<nD>> \/ p = <<nD, nSp>> THEN {"dir"}
    ELSE IF p = <<nBad>> THEN {"dir", "file"}
    ELSE IF p = <<nD, nLp>> THEN {"symlink"}
    ELSE {"file"}

\* paths and extensions handed to the three operations
InputPaths ==
    {<<nD>>, <<nBad>>, <<nD, nAp>>, <<nD, nLp>>, <<nD, nSp>>,
     <<nD, CurDir, DotDot, nD>>}

\* directories handed to seek_file_by_extension
SeekPaths == InputPaths \ {<<nD, CurDir, DotDot, nD>>}

InputExtensions == {<<>>, <<"p">>, <<Dot, "p">>, <<"t", Dot, "p">>}

\* directories whose read permission the environment changes
ChmodPaths == {<<nD>>}

Absent == [kind |-> "absent", target |-> <<>>, readable |-> FALSE]
FileNode == [kind |-> "file", target |-> <<>>, readable |-> TRUE]
DirNode(r) == [kind |-> "dir", target |-> <<>>, readable |-> r]
LinkNode(t) == [kind |-> "symlink", target |-> t, readable |-> TRUE]

Node(f, p) ==
    IF p = Root THEN DirNode(TRUE)
    ELSE IF p \in Universe THEN f[p]
    ELSE Absent

Parent(p) == IF p = Root THEN Root ELSE SubSeq(p, 1, Len(p) - 1)

\* names of the entries of directory d, as read_dir lists them
Children(f, d) ==
    {p[Len(p)] : p \in {q \in Universe : Parent(q) = d /\ f[q].kind # "absent"}}

Existing(f) == {p \in Universe : f[p].kind # "absent"}

(***************************************************************************)
(* Results: std::io::Result<PathBuf> and std::io::Result<Vec<PathBuf>>.    *)
(* An error is its ErrorKind and its message.                              *)
(***************************************************************************)
NoError == [kind |-> "none", msg |-> <<>>]
OsError(k) == [kind |-> k, msg |-> <<>>]
OtherError(m) == [kind |-> "Other", msg |-> m]

Ok(p) == [ok |-> TRUE, path |-> p, files |-> <<>>, err |-> NoError]
OkFiles(v) == [ok |-> TRUE, path |-> <<>>, files |-> v, err |-> NoError]
Err(e) == [ok |-> FALSE, path |-> <<>>, files |-> <<>>, err |-> e]

Some(v) == [some |-> TRUE, val |-> v]
None == [some |-> FALSE, val |-> <<>>]

(***************************************************************************)
(* fs::canonicalize: walk the components from the root, following          *)
(* symbolic links and removing "." and "..".                               *)
(***************************************************************************)
RECURSIVE Walk(_, _, _, _)
Walk(f, cur, rest, fuel) ==
    IF rest = <<>> THEN Ok(cur)
    ELSE IF Node(f, cur).kind # "dir" THEN Err(OsError("NotADirectory"))
    ELSE IF Head(rest) = CurDir THEN Walk(f, cur, Tail(rest), fuel)
    ELSE IF Head(rest) = DotDot THEN Walk(f, Parent(cur), Tail(rest), fuel)
    ELSE LET nxt == Append(cur, Head(rest))
             n == Node(f, nxt)
         IN  IF n.kind = "absent" THEN Err(OsError("NotFound"))
             ELSE IF n.kind = "symlink"
                  THEN IF fuel = 0 THEN Err(OsError("FilesystemLoop"))
                       ELSE Walk(f, Root, n.target \o Tail(rest), fuel - 1)
             ELSE Walk(f, nxt, Tail(rest), fuel)

canonicalize(f, p) == Walk(f, Root, p, MaxSymlinks)

\* a variant that falls back to the given path when resolution fails
get_full_path_fallback(f, src_path) ==
    LET r == canonicalize(f, src_path) IN IF r.ok THEN r ELSE Ok(src_path)

get_full_path(f, src_path) == canonicalize(f, src_path)

\* Path::is_dir and Path::is_file: the metadata of the resolved path
is_dir(f, p) ==
    LET r == canonicalize(f, p) IN r.ok /\ Node(f, r.path).kind = "dir"

is_file(f, p) ==
    LET r == canonicalize(f, p) IN r.ok /\ Node(f, r.path).kind = "file"

(***************************************************************************)
(* Path::to_str: the text of the path, None when a byte is not UTF-8.      *)
(***************************************************************************)
RECURSIVE Flatten(_)
Flatten(p) ==
    IF p = <<>> THEN <<>> ELSE <<"/">> \o Head(p) \o Flatten(Tail(p))

ValidText(s) == \A i \in 1..Len(s) : s[i] # Invalid

to_str(s) == IF ValidText(s) THEN Some(s) ELSE None

PathText(p) == IF p = Root THEN <<"/">> ELSE Flatten(p)

get_path_str(src_path) ==
    LET path_str_option == to_str(PathText(src_path))
    IN  IF path_str_option.some
        THEN [ok |-> TRUE, str |-> path_str_option.val, err |-> NoError]
        ELSE [ok |-> FALSE, str |-> <<>>,
              err |-> OtherError(<<"Failed to convert path to string">>)]

\* a variant that returns the path it was given instead of the resolved one
is_valid_directory_unresolved(f, directory_path) ==
    LET full_path == get_full_path(f, directory_path)
        path_str == get_path_str(full_path.path)
    IN  IF ~full_path.ok THEN Err(full_path.err)
        ELSE IF ~path_str.ok THEN Err(path_str.err)
        ELSE IF ~is_dir(f, full_path.path)
             THEN Err(OtherError(path_str.str \o <<" is not a directory">>))
        ELSE Ok(directory_path)

\* a variant whose message names the given path instead of the resolved one
is_valid_directory_input_message(f, directory_path) ==
    LET full_path == get_full_path(f, directory_path)
        path_str == get_path_str(full_path.path)
    IN  IF ~full_path.ok THEN Err(full_path.err)
        ELSE IF ~path_str.ok THEN Err(path_str.err)
        ELSE IF ~is_dir(f, full_path.path)
             THEN Err(OtherError(PathText(directory_path)
                                     \o <<" is not a directory">>))
        ELSE Ok(full_path.path)

is_valid_directory(f, directory_path) ==
    LET full_path == get_full_path(f, directory_path)
        path_str == get_path_str(full_path.path)
    IN  IF ~full_path.ok THEN Err(full_path.err)
        ELSE IF ~path_str.ok THEN Err(path_str.err)
        ELSE IF ~is_dir(f, full_path.path)
             THEN Err(OtherError(path_str.str \o <<" is not a directory">>))
        ELSE Ok(full_path.path)

\* a variant without the type check
is_valid_file_unchecked(f, file_path) ==
    LET full_path == get_full_path(f, file_path)
        path_str == get_path_str(full_path.path)
    IN  IF ~full_path.ok THEN Err(full_path.err)
        ELSE IF ~path_str.ok THEN Err(path_str.err)
        ELSE Ok(full_path.path)

\* a variant that checks the type before the conversion to text
is_valid_file_type_first(f, file_path) ==
    LET full_path == get_full_path(f, file_path)
        path_str == get_path_str(full_path.path)
    IN  IF ~full_path.ok THEN Err(full_path.err)
        ELSE IF ~is_file(f, full_path.path)
             THEN Err(OtherError(PathText(full_path.path)
                                     \o <<" is not a file">>))
        ELSE IF ~path_str.ok THEN Err(path_str.err)
        ELSE Ok(full_path.path)

is_valid_file(f, file_path) ==
    LET full_path == get_full_path(f, file_path)
        path_str == get_path_str(full_path.path)
    IN  IF ~full_path.ok THEN Err(full_path.err)
        ELSE IF ~path_str.ok THEN Err(path_str.err)
        ELSE IF ~is_file(f, full_path.path)
             THEN Err(OtherError(path_str.str \o <<" is not a file">>))
        ELSE Ok(full_path.path)

(***************************************************************************)
(* Path::extension of the last component: the part after the last dot;     *)
(* None without a dot, and None when the only dot is the first character.  *)
(***************************************************************************)
Dots(name) == {i \in 1..Len(name) : name[i] = Dot}

LastDot(name) == CHOOSE i \in Dots(name) : \A j \in Dots(name) : j <= i

FirstDot(name) == CHOOSE i \in Dots(name) : \A j \in Dots(name) : i <= j

\* a variant that splits the name at its first dot
extension_first_dot(p) ==
    LET name == p[Len(p)]
    IN  IF name = DotDot THEN None
        ELSE IF Dots(name) = {} THEN None
        ELSE IF FirstDot(name) = 1 THEN None
        ELSE Some(SubSeq(name, FirstDot(name) + 1, Len(name)))

extension(p) ==
    LET name == p[Len(p)]
    IN  IF name = DotDot THEN None
        ELSE IF Dots(name) = {} THEN None
        ELSE IF LastDot(name) = 1 THEN None
        ELSE Some(SubSeq(name, LastDot(name) + 1, Len(name)))

\* path.extension().and_then(|s| s.to_str())
extension_str(p) ==
    LET e == extension(p) IN IF e.some THEN to_str(e.val) ELSE None

(***************************************************************************)
(* seek_file_by_extension; order is the order in which read_dir yields     *)
(* the entries.                                                            *)
(***************************************************************************)
\* a variant that does not ask whether the entry is a file
RECURSIVE ScanEntries_any_kind(_, _, _, _, _)
ScanEntries_any_kind(f, src_dir, ext, order, files) ==
    IF order = <<>> THEN files
    ELSE LET path == Append(src_dir, Head(order))
         IN  ScanEntries_any_kind(f, src_dir, ext, Tail(order),
                 IF extension_str(path) = Some(ext)
                 THEN Append(files, path)
                 ELSE files)

\* a variant that leaves the loop at the first entry that does not match
RECURSIVE ScanEntries_break(_, _, _, _, _)
ScanEntries_break(f, src_dir, ext, order, files) ==
    IF order = <<>> THEN files
    ELSE LET path == Append(src_dir, Head(order))
         IN  IF is_file(f, path) /\ extension_str(path) = Some(ext)
             THEN ScanEntries_break(f, src_dir, ext, Tail(order),
                                    Append(files, path))
             ELSE files

RECURSIVE ScanEntries(_, _, _, _, _)
ScanEntries(f, src_dir, ext, order, files) ==
    IF order = <<>> THEN files
    ELSE LET path == Append(src_dir, Head(order))
         IN  ScanEntries(f, src_dir, ext, Tail(order),
                 IF is_file(f, path) /\ extension_str(path) = Some(ext)
                 THEN Append(files, path)
                 ELSE files)

\* a variant that checks the extension before the directory
seek_extension_first(f, directory_path, ext, order) ==
    LET src_dir == is_valid_directory(f, directory_path)
    IN  IF ext = <<>>
        THEN Err(OtherError(<<"Extension is not specified.">>))
        ELSE IF ~src_dir.ok THEN Err(src_dir.err)
        ELSE IF ~Node(f, src_dir.path).readable
             THEN Err(OsError("PermissionDenied"))
        ELSE OkFiles(ScanEntries(f, src_dir.path, ext, order, <<>>))

seek_file_by_extension(f, directory_path, ext, order) ==
    LET src_dir == is_valid_directory(f, directory_path)
    IN  IF ~src_dir.ok THEN Err(src_dir.err)
        ELSE IF ext = <<>>
             THEN Err(OtherError(<<"Extension is not specified.">>))
        ELSE IF ~Node(f, src_dir.path).readable
             THEN Err(OsError("PermissionDenied"))
        ELSE OkFiles(ScanEntries(f, src_dir.path, ext, order, <<>>))

\* the orders in which read_dir may list a set of entries
Orders(S) ==
    {o \in [1..Cardinality(S) -> S] :
        \A i, j \in 1..Cardinality(S) : o[i] = o[j] => i = j}

\* the orders read_dir may produce in a call; one empty listing when the
\* call returns before it reads the directory
ReadDirOrders(f, p, e) ==
    IF seek_file_by_extension(f, p, e, <<>>).ok
    THEN Orders(Children(f, canonicalize(f, p).path))
    ELSE {<<>>}

(***************************************************************************)
(* State machine: the environment edits the filesystem; the program's      *)
(* operations read it. call and result hold the last operation called      *)
(* since the filesystem last changed.                                      *)
(***************************************************************************)
NoCall == [op |-> "none", path |-> <<>>, ext |-> <<>>]
NoResult == Err(NoError)

Init ==
    /\ fs = [p \in Universe |-> Absent]
    /\ call = NoCall
    /\ result = NoResult
    /\ repeated = FALSE

Forget == call' = NoCall /\ result' = NoResult /\ repeated' = FALSE

\* the call made now repeats the previous one on the same filesystem
Called(c) == call' = c /\ repeated' = (call = c)

Create(p, n) ==
    /\ fs[p].kind = "absent"
    /\ Node(fs, Parent(p)).kind = "dir"
    /\ Cardinality(Existing(fs)) < MaxNodes
    /\ fs' = [fs EXCEPT ![p] = n]
    /\ Forget

CreateFile == \E p \in Universe : "file" \in NodeKinds(p) /\ Create(p, FileNode)

\* the prefixes of p, p included
Prefixes(p) == {SubSeq(p, 1, i) : i \in 1..Len(p)}

\* fs::create_dir_all: the directory and every missing ancestor, in one call
CreateDirAll ==
    \E p \in Universe :
        LET missing == {q \in Prefixes(p) : fs[q].kind = "absent"}
        IN  /\ "dir" \in NodeKinds(p)
            /\ fs[p].kind = "absent"
            /\ \A q \in Prefixes(p) : fs[q].kind \in {"absent", "dir"}
            /\ Cardinality(Existing(fs)) + Cardinality(missing) <= MaxNodes
            /\ fs' = [q \in Universe |->
                         IF q \in missing THEN DirNode(TRUE) ELSE fs[q]]
            /\ Forget

Symlink ==
    \E p \in Universe, t \in LinkTargets :
        "symlink" \in NodeKinds(p) /\ Create(p, LinkNode(t))

\* fs::remove_dir_all: a directory with everything under it, in one call;
\* a symbolic link is removed itself, a regular file is refused, and a
\* directory that cannot be read cannot be emptied
RemoveDirAll ==
    \E p \in Universe :
        LET under == {q \in Universe : p \in Prefixes(q)}
        IN  /\ fs[p].kind \in {"dir", "symlink"}
            /\ \A q \in under : fs[q].kind = "dir" => fs[q].readable
            /\ fs' = [q \in Universe |-> IF q \in under THEN Absent ELSE fs[q]]
            /\ Forget

Chmod ==
    \E p \in ChmodPaths :
        /\ fs[p].kind = "dir"
        /\ fs' = [fs EXCEPT ![p].readable = ~fs[p].readable]
        /\ Forget

CallIsValidDirectory ==
    \E p \in InputPaths :
        /\ Called([op |-> "is_valid_directory", path |-> p, ext |-> <<>>])
        /\ result' = is_valid_directory(fs, p)
        /\ UNCHANGED fs

CallIsValidFile ==
    \E p \in InputPaths :
        /\ Called([op |-> "is_valid_file", path |-> p, ext |-> <<>>])
        /\ result' = is_valid_file(fs, p)
        /\ UNCHANGED fs

CallSeek ==
    \E p \in SeekPaths, e \in InputExtensions :
        \E order \in ReadDirOrders(fs, p, e) :
            /\ Called([op |-> "seek_file_by_extension", path |-> p, ext |-> e])
            /\ result' = seek_file_by_extension(fs, p, e, order)
            /\ UNCHANGED fs

Next ==
    \/ CreateFile
    \/ CreateDirAll
    \/ Symlink
    \/ RemoveDirAll
    \/ Chmod
    \/ CallIsValidDirectory
    \/ CallIsValidFile
    \/ CallSeek

Spec == Init /\ [][Next]_vars

TypeOK ==
    /\ \A p \in Universe : fs[p].kind \in {"absent", "file", "dir", "symlink"}
    /\ \A p \in Existing(fs) : Node(fs, Parent(p)).kind = "dir"
    /\ call.op \in {"none", "is_valid_directory", "is_valid_file",
                    "seek_file_by_extension"}

(***************************************************************************)
(* Vocabulary of the properties.                                           *)
(***************************************************************************)
ToSet(q) == {q[i] : i \in 1..Len(q)}

Validators == {"is_valid_directory", "is_valid_file"}

\* p names a node through real directories only: no ".", no "..", no link
IsCanonicalForm(f, p) ==
    \A i \in 1..Len(p) :
        /\ p[i] \notin {CurDir, DotDot}
        /\ Node(f, SubSeq(p, 1, i)).kind \in {"dir", "file"}
        /\ i < Len(p) => Node(f, SubSeq(p, 1, i)).kind = "dir"

\* some component of p is missing from the directory that would hold it
NoSuchPath(f, p) ==
    \E i \in 1..Len(p) :
        /\ p[i] \notin {CurDir, DotDot}
        /\ Node(f, SubSeq(p, 1, i)).kind = "absent"
        /\ \A j \in 1..(i - 1) : Node(f, SubSeq(p, 1, j)).kind = "dir"

\* the node p resolves to, "none" when it resolves to nothing
ResolvedKind(f, p) ==
    IF canonicalize(f, p).ok THEN Node(f, canonicalize(f, p).path).kind
    ELSE "none"

\* the resolved form of p can be written as text
TextRepresentable(f, p) == ValidText(PathText(canonicalize(f, p).path))

ConversionError == OtherError(<<"Failed to convert path to string">>)
MissingExtensionError == OtherError(<<"Extension is not specified.">>)
NotADirectoryError(p) == OtherError(PathText(p) \o <<" is not a directory">>)
NotAFileError(p) == OtherError(PathText(p) \o <<" is not a file">>)

IsCanonicalizationError(e) ==
    e.kind \in {"NotFound", "NotADirectory", "FilesystemLoop"}

IsTypeError(e) ==
    /\ e.kind = "Other"
    /\ Len(e.msg) > 0
    /\ e.msg[Len(e.msg)] \in {" is not a directory", " is not a file"}

\* the call's directory exists, is a directory and its path is text
SeekDirValid == is_valid_directory(fs, call.path).ok

SeekDir == canonicalize(fs, call.path).path

Seeking == call.op = "seek_file_by_extension"

\* name is stem.ext with a non-empty stem and no dot in ext
HasExtension(name, ext) ==
    \E i \in 2..Len(name) :
        /\ name[i] = Dot
        /\ SubSeq(name, i + 1, Len(name)) = ext
        /\ \A k \in 1..Len(ext) : ext[k] # Dot

\* the part of name after its last dot, whatever precedes that dot
AfterLastDot(name) ==
    IF Dots(name) = {} THEN None
    ELSE Some(SubSeq(name, LastDot(name) + 1, Len(name)))

\* as AfterLastDot, but a dot that begins the name separates nothing
AfterLastSeparatorDot(name) ==
    IF Dots(name) \ {1} = {} THEN None
    ELSE Some(SubSeq(name, LastDot(name) + 1, Len(name)))

\* the entries of the call's directory that resolve to regular files
FileEntries == {n \in Children(fs, SeekDir) : is_file(fs, Append(SeekDir, n))}

(***************************************************************************)
(* C1 as stated: is_valid_directory succeeds on every path that resolves   *)
(* to an existing directory, whatever its name, and returns its canonical  *)
(* form. Fails for a directory whose name is not valid UTF-8.              *)
(***************************************************************************)
C1_EveryDirectoryAccepted ==
    (call.op = "is_valid_directory" /\ ResolvedKind(fs, call.path) = "dir")
        => /\ result.ok
           /\ result.path = canonicalize(fs, call.path).path
           /\ IsCanonicalForm(fs, result.path)
           /\ Node(fs, result.path).kind = "dir"

(***************************************************************************)
(* C1 amended: is_valid_directory succeeds on every path that resolves to  *)
(* an existing directory whose canonical path is representable as text,    *)
(* and returns the canonical, absolute, link-free path of that directory.  *)
(***************************************************************************)
C1_TextDirectoryAccepted ==
    (/\ call.op = "is_valid_directory"
     /\ ResolvedKind(fs, call.path) = "dir"
     /\ TextRepresentable(fs, call.path))
        => /\ result.ok
           /\ result.path = canonicalize(fs, call.path).path
           /\ IsCanonicalForm(fs, result.path)
           /\ Node(fs, result.path).kind = "dir"

\* a directory reached through a symbolic link was validated
C1_Witness ==
    /\ call.op = "is_valid_directory"
    /\ call.path = <<nD, nLp>>
    /\ result.ok
    /\ result.path = <<nD, nSp>>

(***************************************************************************)
(* C2: a successful is_valid_directory returns an existing directory, a    *)
(* successful is_valid_file returns an existing regular file, and a        *)
(* failed call carries an error and no path.                               *)
(***************************************************************************)
C2_NoPartialValidation ==
    /\ (call.op = "is_valid_directory" /\ result.ok)
           => (Node(fs, result.path).kind = "dir"
               /\ IsCanonicalForm(fs, result.path))
    /\ (call.op = "is_valid_file" /\ result.ok)
           => (Node(fs, result.path).kind = "file"
               /\ IsCanonicalForm(fs, result.path))
    /\ (call.op \in Validators /\ ~result.ok)
           => (result.path = <<>> /\ result.err # NoError)
    /\ (call.op \in Validators /\ result.ok) => result.err = NoError

\* is_valid_file was asked about an existing directory and refused it
C2_Witness ==
    /\ call.op = "is_valid_file"
    /\ ResolvedKind(fs, call.path) = "dir"
    /\ TextRepresentable(fs, call.path)
    /\ ~result.ok
    /\ result.path = <<>>

(***************************************************************************)
(* C3: for a path that does not exist both validators fail with the error  *)
(* of canonicalization (not found), never with a type error or the         *)
(* conversion error.                                                       *)
(***************************************************************************)
C3_MissingPathIsIOError ==
    (call.op \in Validators /\ NoSuchPath(fs, call.path))
        => /\ ~result.ok
           /\ result.err = OsError("NotFound")
           /\ ~IsTypeError(result.err)
           /\ result.err # ConversionError

\* a validator was called on a file name missing from an existing directory
C3_Witness ==
    /\ call.op \in Validators
    /\ call.path = <<nD, nAp>>
    /\ Node(fs, <<nD>>).kind = "dir"
    /\ Node(fs, <<nD, nAp>>).kind = "absent"
    /\ result.err = OsError("NotFound")

(***************************************************************************)
(* C4 as stated: for every existing regular file is_valid_file succeeds    *)
(* and is_valid_directory fails with the not-a-directory error carrying    *)
(* the resolved path; for every existing directory is_valid_file fails     *)
(* with the not-a-file error. Fails when the name is not valid UTF-8.      *)
(***************************************************************************)
C4_EveryTypeMismatchReported ==
    /\ (call.op = "is_valid_file" /\ ResolvedKind(fs, call.path) = "file")
           => result.ok
    /\ (call.op = "is_valid_directory" /\ ResolvedKind(fs, call.path) = "file")
           => (~result.ok
               /\ result.err = NotADirectoryError(canonicalize(fs, call.path).path))
    /\ (call.op = "is_valid_file" /\ ResolvedKind(fs, call.path) = "dir")
           => (~result.ok
               /\ result.err = NotAFileError(canonicalize(fs, call.path).path))

(***************************************************************************)
(* C4 amended: the same, for every existing regular file and directory     *)
(* whose canonical path is representable as text.                          *)
(***************************************************************************)
C4_TextTypeMismatchReported ==
    TextRepresentable(fs, call.path) =>
        /\ (call.op = "is_valid_file" /\ ResolvedKind(fs, call.path) = "file")
               => (result.ok /\ result.path = canonicalize(fs, call.path).path)
        /\ (call.op = "is_valid_directory"
                /\ ResolvedKind(fs, call.path) = "file")
               => (~result.ok
                   /\ result.err
                        = NotADirectoryError(canonicalize(fs, call.path).path)
                   /\ ~IsCanonicalizationError(result.err))
        /\ (call.op = "is_valid_file" /\ ResolvedKind(fs, call.path) = "dir")
               => (~result.ok
                   /\ result.err
                        = NotAFileError(canonicalize(fs, call.path).path)
                   /\ ~IsCanonicalizationError(result.err))

\* is_valid_directory refused a link to a regular file, naming the file
C4_Witness ==
    /\ call.op = "is_valid_directory"
    /\ call.path = <<nD, nLp>>
    /\ result.err = NotADirectoryError(<<nD, nAp>>)

(***************************************************************************)
(* C5: on a valid, readable directory and a non-empty extension the scan   *)
(* succeeds with exactly the immediate entries that resolve to regular     *)
(* files and are named stem.ext, each once; an empty list when there are   *)
(* none.                                                                   *)
(***************************************************************************)
C5_ExactlyTheMatchingFiles ==
    (/\ Seeking
     /\ SeekDirValid
     /\ Node(fs, SeekDir).readable
     /\ call.ext # <<>>)
        => /\ result.ok
           /\ ToSet(result.files)
                = {Append(SeekDir, n) :
                     n \in {m \in FileEntries : HasExtension(m, call.ext)}}
           /\ Len(result.files) = Cardinality(ToSet(result.files))

\* two files matched while a directory whose name ends in .p was left out
C5_Witness ==
    /\ Seeking
    /\ call.path = <<nD>>
    /\ call.ext = <<"p">>
    /\ Node(fs, <<nD, nSp>>).kind = "dir"
    /\ result.ok
    /\ Len(result.files) = 2

(***************************************************************************)
(* C6: the scan checks the directory first, then the extension, then       *)
(* reads the directory: an invalid directory yields the error of           *)
(* is_valid_directory even with an empty extension; a valid directory and  *)
(* an empty extension yield the missing-extension error even when the      *)
(* directory cannot be read; an unreadable directory yields the error of   *)
(* read_dir only with a non-empty extension.                               *)
(***************************************************************************)
C6_CheckOrder ==
    Seeking =>
        /\ ~SeekDirValid
               => result = Err(is_valid_directory(fs, call.path).err)
        /\ (SeekDirValid /\ call.ext = <<>>)
               => result = Err(MissingExtensionError)
        /\ (SeekDirValid /\ call.ext # <<>> /\ ~Node(fs, SeekDir).readable)
               => result = Err(OsError("PermissionDenied"))

\* an unreadable directory and an empty extension: the extension is reported
C6_Witness ==
    /\ Seeking
    /\ SeekDirValid
    /\ ~Node(fs, SeekDir).readable
    /\ call.ext = <<>>
    /\ result = Err(MissingExtensionError)

(***************************************************************************)
(* C7 as stated: every path the scan returns is its own canonical form.    *)
(* Fails for an entry that is a symbolic link to a regular file.           *)
(***************************************************************************)
C7_ReturnedPathsCanonical ==
    (Seeking /\ result.ok)
        => \A i \in 1..Len(result.files) :
               canonicalize(fs, result.files[i]) = Ok(result.files[i])

(***************************************************************************)
(* C8: a scan leaves the filesystem as it was, and a scan repeated on the  *)
(* unchanged filesystem with the same arguments has the same outcome: the  *)
(* same set of paths, or the same error.                                   *)
(***************************************************************************)
C8_Idempotent ==
    [][/\ call'.op = "seek_file_by_extension" => fs' = fs
       /\ (Seeking /\ call' = call)
              => /\ result'.ok = result.ok
                 /\ result'.err = result.err
                 /\ ToSet(result'.files) = ToSet(result.files)]_vars

\* a scan that found two files was repeated
C8_Witness ==
    /\ Seeking
    /\ repeated
    /\ result.ok
    /\ Len(result.files) = 2

(***************************************************************************)
(* C9 as stated: a regular-file entry is matched exactly when the part of  *)
(* its name after the last dot equals ext, also when that dot is the first *)
(* character of the name. Fails for a file named .p and ext p.             *)
(***************************************************************************)
C9_AfterLastDotMatches ==
    (Seeking /\ result.ok)
        => \A n \in FileEntries :
               Append(SeekDir, n) \in ToSet(result.files)
                   <=> AfterLastDot(n) = Some(call.ext)

(***************************************************************************)
(* C9 amended: a regular-file entry is matched exactly when the part of    *)
(* its name after the last dot equals ext and that dot is not the first    *)
(* character of the name: a.t.p matches p and not t.p, and a file named    *)
(* .p has no extension and is not matched by p.                            *)
(***************************************************************************)
C9_AfterLastSeparatorDotMatches ==
    (Seeking /\ result.ok)
        => \A n \in FileEntries :
               Append(SeekDir, n) \in ToSet(result.files)
                   <=> AfterLastSeparatorDot(n) = Some(call.ext)

\* a.t.p was matched by p while .p was not
C9_Witness ==
    /\ Seeking
    /\ call.ext = <<"p">>
    /\ {nAtp, nDotP} \subseteq FileEntries
    /\ result.ok
    /\ ToSet(result.files) = {<<nD, nAtp>>}

(***************************************************************************)
(* C10: when the canonical form of an existing path is not representable   *)
(* as text, both validators fail with the conversion error, whatever the   *)
(* type of the path, and that error is neither an error of                 *)
(* canonicalization nor a type error.                                      *)
(***************************************************************************)
C10_ConversionErrorFirst ==
    (/\ call.op \in Validators
     /\ canonicalize(fs, call.path).ok
     /\ ~TextRepresentable(fs, call.path))
        => /\ result = Err(ConversionError)
           /\ ~IsCanonicalizationError(result.err)
           /\ ~IsTypeError(result.err)

\* is_valid_file met a directory whose name is not text
C10_Witness ==
    /\ call.op = "is_valid_file"
    /\ call.path = <<nBad>>
    /\ Node(fs, <<nBad>>).kind = "dir"
    /\ result = Err(ConversionError)
====
